---- MODULE Spec2Model ----
(***************************************************************************)
(* next-firebase-auth: the server-side auth gate.                          *)
(*                                                                         *)
(*   src/src/withAuthUserTokenSSR.js  the request orchestrator and its     *)
(*                                    module-local redirect engine         *)
(*   src/unnamed/part_000             the exported redirect engine whose   *)
(*                                    legacy strategy is a generator       *)
(*                                                                         *)
(* JavaScript values are tagged records, so that truthiness, property      *)
(* access and `||` are computed the way the language computes them.        *)
(***************************************************************************)
EXTENDS Integers, Sequences, FiniteSets, TLC

\* ------------------------------------------------------------ JS values

Undefined == [t |-> "undefined"]
Null == [t |-> "null"]
Str(s) == [t |-> "string", s |-> s]
Bool(b) == [t |-> "boolean", b |-> b]
Fn(n) == [t |-> "function", name |-> n]
Obj(f) == [t |-> "object", o |-> f]
\* The text JSON.stringify produces of a value; JSON.parse gives it back.
Json(v) == [t |-> "string", json |-> v]
EmptyObj == Obj([k \in {} |-> Undefined])

\* ToBoolean: undefined, null, false and "" are falsy, everything else truthy.
Truthy(x) ==
  CASE x.t \in {"undefined", "null"} -> FALSE
    [] x.t = "boolean" -> x.b
    [] x.t = "string" -> IF "s" \in DOMAIN x THEN x.s # "" ELSE TRUE
    [] OTHER -> TRUE

\* a || b
Or(a, b) == IF Truthy(a) THEN a ELSE b

\* Reading a property of null or undefined is a TypeError.
Nullish(x) == x.t \in {"undefined", "null"}

\* x.key for an object x: a missing key reads undefined.
Get(x, key) == IF x.t = "object" /\ key \in DOMAIN x.o THEN x.o[key] ELSE Undefined

\* x.key = v
Set(x, key, v) ==
  Obj([k \in DOMAIN x.o \cup {key} |-> IF k = key THEN v ELSE x.o[k]])

Has(x, key) == x.t = "object" /\ key \in DOMAIN x.o

\* ------------------------------------------------------------ outcomes
\* What a call does: return a value or throw, and the URL functions it
\* invoked on the way (name and argument), in order.

Return(v, calls) == [kind |-> "return", value |-> v, calls |-> calls]
Throw(msg, calls) == [kind |-> "throw", value |-> Str(msg), calls |-> calls]

\* ------------------------------------------------------------ bounds

MaxUsers == 1
UserIds == <<"uid1", "uid2", "uid3">>
Users == {UserIds[i] : i \in 1..MaxUsers}

\* ------------------------------------------------------------ collaborators

RENDER == "render"
REDIRECT_TO_LOGIN == "redirectToLogin"
REDIRECT_TO_APP == "redirectToApp"

\* createAuthUser(): the unauthenticated AuthUser.
AnonymousUser == Obj([id |-> Null])
IdentifiedUser(u) == Obj([id |-> Str(u)])
Sessions == {AnonymousUser} \cup {IdentifiedUser(u) : u \in Users}

\* AuthUser.serialize()
serialize(AuthUser) == Json(AuthUser)

\* createAuthUser({serializedAuthUser}): no cookie gives the anonymous user.
createAuthUser(serializedAuthUser) ==
  IF Truthy(serializedAuthUser) THEN serializedAuthUser.json ELSE AnonymousUser

AuthUserTokensCookieName == "AuthUserTokens"
AuthUserCookieName == "AuthUser"

\* getCookie(name, {req, res}, options)
getCookie(name, ctx) == Get(Get(ctx, "cookies"), name)

\* The URL functions a configuration may hold, applied to {ctx, AuthUser}.
Apply(fn, arg) ==
  CASE fn.name = "emptyURL" -> Str("")
    [] fn.name = "byUser" ->
         IF Truthy(Get(Get(arg, "AuthUser"), "id")) THEN Str("/home") ELSE Str("/signin")
    [] OTHER -> Undefined

Call(fn, arg) == [fn |-> fn.name, arg |-> arg]

\* ------------------------------------------------------------ state

VARIABLES
  options,                \* withAuthUserTokenSSR's first two arguments, defaults applied
  config,                 \* getConfig(): the process-wide defaults
  getServerSidePropsFunc, \* the composed getServerSideProps, or undefined
  pc,                     \* where the handler of the current request stands
  ctx,                    \* the request context
  AuthUser,               \* the session determineAuthUser resolved
  AuthUserSerialized,
  redirect,               \* the outcome of the handler's processRedirect call
  composedProps,          \* (await getServerSidePropsFunc(ctx)) || {}
  returnData,             \* the outcome of the handler
  events,                 \* the calls the handler has made, in order
  exported                \* the last call of the exported processRedirect

vars == <<options, config, getServerSidePropsFunc, pc, ctx, AuthUser,
          AuthUserSerialized, redirect, composedProps, returnData, events, exported>>

NoOutcome == [kind |-> "none", value |-> Undefined, calls |-> <<>>]
NoCall == [settings |-> Undefined, outcome |-> NoOutcome]

\* ------------------------------------------------------------ redirect engine

MsgAuthPageURLRequired ==
  "When whenUnauthed is set to AuthAction.REDIRECT_TO_LOGIN, authPageURL must be set."
MsgAuthPageURLEmpty ==
  "The authPageURL must be set to a non-empty string or resolve to a non-empty string"
MsgAppPageURLRequired ==
  "When whenAuthed is set to AuthAction.REDIRECT_TO_APP, appPageURL must be set."
MsgAppPageURLEmpty ==
  "The appPageURL must be set to a non-empty string or resolve to a non-empty string"
MsgTypeError == "TypeError: Cannot read properties of null"

Directive(destination) ==
  Obj([redirect |-> Obj([destination |-> destination, permanent |-> Bool(FALSE)])])

\* A variant that issues a permanent redirect.
redirectUnauthenticatedUser_permanent(unauthenticatedRedirectURL, context, user) ==
  IF ~Truthy(unauthenticatedRedirectURL)
  THEN Throw(MsgAuthPageURLRequired, <<>>)
  ELSE LET isString == unauthenticatedRedirectURL.t = "string"
           arg == Obj([ctx |-> context, AuthUser |-> user])
           destination == IF isString THEN unauthenticatedRedirectURL
                          ELSE Apply(unauthenticatedRedirectURL, arg)
           calls == IF isString THEN <<>> ELSE <<Call(unauthenticatedRedirectURL, arg)>>
       IN IF ~Truthy(destination)
          THEN Throw(MsgAuthPageURLEmpty, calls)
          ELSE Return(Obj([redirect |-> Obj([destination |-> destination,
                                             permanent |-> Bool(TRUE)])]), calls)

redirectUnauthenticatedUser(unauthenticatedRedirectURL, context, user) ==
  IF ~Truthy(unauthenticatedRedirectURL)
  THEN Throw(MsgAuthPageURLRequired, <<>>)
  ELSE LET isString == unauthenticatedRedirectURL.t = "string"
           arg == Obj([ctx |-> context, AuthUser |-> user])
           destination == IF isString THEN unauthenticatedRedirectURL
                          ELSE Apply(unauthenticatedRedirectURL, arg)
           calls == IF isString THEN <<>> ELSE <<Call(unauthenticatedRedirectURL, arg)>>
       IN IF ~Truthy(destination)
          THEN Throw(MsgAuthPageURLEmpty, calls)
          ELSE Return(Directive(destination), calls)

\* A variant without the test of the resolved destination.
redirectAuthenticatedUser_unchecked(authenticatedRedirectURL, context, user) ==
  IF ~Truthy(authenticatedRedirectURL)
  THEN Throw(MsgAppPageURLRequired, <<>>)
  ELSE LET isString == authenticatedRedirectURL.t = "string"
           arg == Obj([ctx |-> context, AuthUser |-> user])
           destination == IF isString THEN authenticatedRedirectURL
                          ELSE Apply(authenticatedRedirectURL, arg)
           calls == IF isString THEN <<>> ELSE <<Call(authenticatedRedirectURL, arg)>>
       IN Return(Directive(destination), calls)

redirectAuthenticatedUser(authenticatedRedirectURL, context, user) ==
  IF ~Truthy(authenticatedRedirectURL)
  THEN Throw(MsgAppPageURLRequired, <<>>)
  ELSE LET isString == authenticatedRedirectURL.t = "string"
           arg == Obj([ctx |-> context, AuthUser |-> user])
           destination == IF isString THEN authenticatedRedirectURL
                          ELSE Apply(authenticatedRedirectURL, arg)
           calls == IF isString THEN <<>> ELSE <<Call(authenticatedRedirectURL, arg)>>
       IN IF ~Truthy(destination)
          THEN Throw(MsgAppPageURLEmpty, calls)
          ELSE Return(Directive(destination), calls)

\* withAuthUserTokenSSR.js: the legacy strategy, a plain function.
findLegacyRedirect(s) ==
  LET unauthenticatedRedirectURL == Or(s.authPageURL, Get(config, "authPageURL"))
      shouldRedirectUnauthedUser ==
        ~Truthy(Get(s.AuthUser, "id")) /\ s.whenUnauthed = REDIRECT_TO_LOGIN
      authenticatedRedirectURL == Or(s.appPageURL, Get(config, "appPageURL"))
      shouldRedirectAuthedUser ==
        Truthy(Get(s.AuthUser, "id")) /\ s.whenAuthed = REDIRECT_TO_APP
  IN IF shouldRedirectUnauthedUser
     THEN redirectUnauthenticatedUser(unauthenticatedRedirectURL, s.ctx, s.AuthUser)
     ELSE IF shouldRedirectAuthedUser
     THEN redirectAuthenticatedUser(authenticatedRedirectURL, s.ctx, s.AuthUser)
     ELSE Return(Null, <<>>)

\* withAuthUserTokenSSR.js: the rule is read from the call-site redirectConfig,
\* also when `config` is the global default.
findRedirectRule(s) ==
  LET cfg == Or(s.redirectConfig, Get(config, "redirectConfig"))
  IN IF ~Truthy(cfg)
     THEN Return(Null, <<>>)
     ELSE IF Nullish(s.redirectConfig)
     THEN Throw(MsgTypeError, <<>>)
     ELSE Return(Obj([redirect |->
            IF Truthy(Get(s.AuthUser, "id"))
            THEN Get(s.redirectConfig, "authenticatedUser")
            ELSE Get(s.redirectConfig, "unauthenticatedUser")]), <<>>)

\* withAuthUserTokenSSR.js: declarative rule first, legacy strategy second.
processRedirect(redirectSettings) ==
  LET redirectRule == findRedirectRule(redirectSettings)
  IN IF redirectRule.kind = "throw" \/ Truthy(redirectRule.value)
     THEN redirectRule
     ELSE findLegacyRedirect(redirectSettings)

\* part_000: the generator findLegacyRedirect up to its yield: the value of
\* the first next().
findLegacyRedirect_yield(s) ==
  LET unauthenticatedRedirectURL == Or(s.authPageURL, Get(config, "authPageURL"))
      authenticatedRedirectURL == Or(s.appPageURL, Get(config, "appPageURL"))
  IN Or(unauthenticatedRedirectURL, authenticatedRedirectURL)

\* part_000: the generator from its yield to its return: the second next().
findLegacyRedirect_return(s) ==
  LET unauthenticatedRedirectURL == Or(s.authPageURL, Get(config, "authPageURL"))
      shouldRedirectUnauthedUser ==
        ~Truthy(Get(s.AuthUser, "id")) /\ s.whenUnauthed = REDIRECT_TO_LOGIN
      authenticatedRedirectURL == Or(s.appPageURL, Get(config, "appPageURL"))
      shouldRedirectAuthedUser ==
        Truthy(Get(s.AuthUser, "id")) /\ s.whenAuthed = REDIRECT_TO_APP
  IN IF shouldRedirectUnauthedUser
     THEN redirectUnauthenticatedUser(unauthenticatedRedirectURL, s.ctx, s.AuthUser)
     ELSE IF shouldRedirectAuthedUser
     THEN redirectAuthenticatedUser(authenticatedRedirectURL, s.ctx, s.AuthUser)
     ELSE Return(Null, <<>>)

\* part_000: the rule is read from `config`.
findRedirectRule_gen(s) ==
  LET cfg == Or(s.redirectConfig, Get(config, "redirectConfig"))
  IN IF ~Truthy(cfg)
     THEN Return(Null, <<>>)
     ELSE Return(Obj([redirect |->
            IF Truthy(Get(s.AuthUser, "id"))
            THEN Get(cfg, "authenticatedUser")
            ELSE Get(cfg, "unauthenticatedUser")]), <<>>)

\* part_000: the legacy strategy whenever a legacy URL is configured, the
\* declarative rule otherwise.
processRedirect_gen(redirectSettings) ==
  LET useLegacyRedirect == findLegacyRedirect_yield(redirectSettings)
  IN IF ~Truthy(useLegacyRedirect)
     THEN findRedirectRule_gen(redirectSettings)
     ELSE findLegacyRedirect_return(redirectSettings)

\* ------------------------------------------------------------ session resolver

\* verifyIdToken(idToken, refreshToken), of src/firebaseAdmin: the user the
\* token names, the unauthenticated user when the token cannot be refreshed,
\* or a rejection.
verifyIdToken(idToken, refreshToken) ==
  {Return(IdentifiedUser(idToken.s), <<>>), Return(AnonymousUser, <<>>),
   Throw("verifyIdToken rejected", <<>>)}

\* The outcomes determineAuthUser can resolve to.
determineAuthUser(useToken, context) ==
  IF useToken
  THEN LET cookieValStr == getCookie(AuthUserTokensCookieName, context)
           parsed == IF Truthy(cookieValStr) THEN cookieValStr.json ELSE EmptyObj
           idToken == Get(parsed, "idToken")
           refreshToken == Get(parsed, "refreshToken")
       IN IF Truthy(idToken)
          THEN verifyIdToken(idToken, refreshToken)
          ELSE {Return(AnonymousUser, <<>>)}
  ELSE LET cookieValStr == getCookie(AuthUserCookieName, context)
       IN {Return(createAuthUser(cookieValStr), <<>>)}

\* ------------------------------------------------------------ orchestrator

DefaultReturnData(serialized) == Obj([props |-> Obj([AuthUserSerialized |-> serialized])])

\* A variant that replaces the hook's props by the session alone.
mergeReturnData_overwrite(resolved, serialized) ==
  LET composed == Or(resolved, EmptyObj)
  IN IF Truthy(Get(composed, "props"))
     THEN Set(composed, "props", Obj([AuthUserSerialized |-> serialized]))
     ELSE IF Truthy(Get(composed, "notFound")) \/ Truthy(Get(composed, "redirect"))
     THEN composed
     ELSE DefaultReturnData(serialized)

\* Lines 249-269 once the hook has resolved to `resolved`. The props object
\* written to is the hook's own (a shallow copy); nothing reads it afterwards.
mergeReturnData(resolved, serialized) ==
  LET composed == Or(resolved, EmptyObj)
  IN IF Truthy(composed)
     THEN IF Truthy(Get(composed, "props"))
          THEN Set(composed, "props",
                   Set(Get(composed, "props"), "AuthUserSerialized", serialized))
          ELSE IF Truthy(Get(composed, "notFound")) \/ Truthy(Get(composed, "redirect"))
          THEN composed
          ELSE DefaultReturnData(serialized)
     ELSE DefaultReturnData(serialized)

\* A variant with the test inverted.
returnsRedirect_inverted(r) == ~Truthy(r)

\* `if (redirect) return redirect`
returnsRedirect(r) == Truthy(r)

RedirectSettings ==
  [redirectConfig |-> options.redirectConfig,
   whenAuthed |-> options.whenAuthed,
   whenUnauthed |-> options.whenUnauthed,
   appPageURL |-> options.appPageURL,
   authPageURL |-> options.authPageURL,
   ctx |-> ctx,
   AuthUser |-> AuthUser]

\* ------------------------------------------------------------ inputs

RuleDashboard == Obj([destination |-> Str("/dashboard"), permanent |-> Bool(FALSE)])
RuleMoved == Obj([destination |-> Str("/moved"), permanent |-> Bool(TRUE)])
RuleGlobalApp == Obj([destination |-> Str("/g-app"), permanent |-> Bool(FALSE)])
RuleGlobalAuth == Obj([destination |-> Str("/g-auth"), permanent |-> Bool(FALSE)])

AuthPageURLs == {Null, Str(""), Str("/login"), Fn("byUser"), Fn("emptyURL")}
AppPageURLs == {Null, Str(""), Str("/app"), Fn("byUser"), Fn("emptyURL")}
RedirectConfigs ==
  {Null, EmptyObj,
   Obj([authenticatedUser |-> RuleDashboard, unauthenticatedUser |-> RuleMoved])}

GlobalConfigs ==
  {Obj([authPageURL |-> a, appPageURL |-> b, redirectConfig |-> r]) :
     a \in {Undefined, Str("/g-login")},
     b \in {Undefined, Str("/g-home")},
     r \in {Undefined,
            Obj([authenticatedUser |-> RuleGlobalApp,
                 unauthenticatedUser |-> RuleGlobalAuth])}}

NoCookies == Obj([cookies |-> EmptyObj])
TokenlessCookies == Obj([cookies |-> Obj([AuthUserTokens |-> Json(EmptyObj)])])
UserCookies(u) ==
  Obj([cookies |->
    Obj([AuthUserTokens |-> Json(Obj([idToken |-> Str(u), refreshToken |-> Str(u)])),
         AuthUser |-> serialize(IdentifiedUser(u))])])
Contexts == {NoCookies, TokenlessCookies} \cup {UserCookies(u) : u \in Users}

\* What a composed getServerSideProps may resolve to.
HookRedirect == Obj([destination |-> Str("/x"), permanent |-> Bool(FALSE)])
HookResults ==
  {Undefined, EmptyObj,
   Obj([props |-> EmptyObj]),
   Obj([props |-> Obj([a |-> Str("1")])]),
   Obj([props |-> Obj([a |-> Str("1")]), revalidate |-> Str("60")]),
   Obj([notFound |-> Bool(TRUE)]),
   Obj([redirect |-> HookRedirect]),
   Obj([props |-> Obj([a |-> Str("1")]), notFound |-> Bool(TRUE)]),
   Obj([props |-> Obj([a |-> Str("1")]), redirect |-> HookRedirect])}

\* ------------------------------------------------------------ actions

Init ==
  /\ options \in [whenAuthed : {RENDER, REDIRECT_TO_APP},
                  whenUnauthed : {RENDER, REDIRECT_TO_LOGIN},
                  appPageURL : AppPageURLs,
                  authPageURL : AuthPageURLs,
                  redirectConfig : RedirectConfigs,
                  useToken : BOOLEAN]
  /\ config \in GlobalConfigs
  /\ getServerSidePropsFunc \in {Undefined, Fn("getServerSideProps")}
  /\ pc = "idle"
  /\ ctx = Undefined
  /\ AuthUser = Undefined
  /\ AuthUserSerialized = Undefined
  /\ redirect = NoOutcome
  /\ composedProps = Undefined
  /\ returnData = NoOutcome
  /\ events = <<>>
  /\ exported = NoCall

Settled == pc \in {"idle", "done", "rejected"}

\* The handler is invoked with a request context: determineAuthUser is called.
Request(c) ==
  /\ Settled
  /\ pc' = "determineAuthUser"
  /\ ctx' = c
  /\ AuthUser' = Undefined
  /\ AuthUserSerialized' = Undefined
  /\ redirect' = NoOutcome
  /\ composedProps' = Undefined
  /\ returnData' = NoOutcome
  /\ events' = <<"determineAuthUser">>
  /\ exported' = NoCall
  /\ UNCHANGED <<options, config, getServerSidePropsFunc>>

\* determineAuthUser rejects: the handler rejects with it.
DetermineAuthUserRejects ==
  /\ pc = "determineAuthUser"
  /\ \E r \in determineAuthUser(options.useToken, ctx) :
       /\ r.kind = "throw"
       /\ returnData' = r
  /\ pc' = "rejected"
  /\ UNCHANGED <<options, config, getServerSidePropsFunc, ctx, AuthUser,
                 AuthUserSerialized, redirect, composedProps, events, exported>>

\* determineAuthUser resolves; the handler runs on to its next await or to
\* its return: serialize, processRedirect, the redirect test, the hook call.
DetermineAuthUserResolves ==
  /\ pc = "determineAuthUser"
  /\ \E r \in determineAuthUser(options.useToken, ctx) :
       /\ r.kind = "return"
       /\ AuthUser' = r.value
       /\ AuthUserSerialized' = serialize(r.value)
       /\ LET outcome == processRedirect([RedirectSettings EXCEPT !.AuthUser = r.value])
          IN /\ redirect' = outcome
             /\ IF outcome.kind = "throw"
                THEN /\ pc' = "rejected"
                     /\ returnData' = outcome
                     /\ events' = events \o <<"processRedirect">>
                     /\ ctx' = ctx
                ELSE IF returnsRedirect(outcome.value)
                THEN /\ pc' = "done"
                     /\ returnData' = Return(outcome.value, <<>>)
                     /\ events' = events \o <<"processRedirect">>
                     /\ ctx' = ctx
                ELSE IF Truthy(getServerSidePropsFunc)
                THEN /\ pc' = "getServerSidePropsFunc"
                     /\ returnData' = NoOutcome
                     /\ events' = events \o <<"processRedirect", "getServerSidePropsFunc">>
                     /\ ctx' = Set(ctx, "AuthUser", r.value)
                ELSE /\ pc' = "done"
                     /\ returnData' = Return(DefaultReturnData(serialize(r.value)), <<>>)
                     /\ events' = events \o <<"processRedirect">>
                     /\ ctx' = ctx
  /\ UNCHANGED <<options, config, getServerSidePropsFunc, composedProps, exported>>

\* The composed getServerSideProps resolves: merge and return.
HookResolves(resolved) ==
  /\ pc = "getServerSidePropsFunc"
  /\ composedProps' = Or(resolved, EmptyObj)
  /\ returnData' = Return(mergeReturnData(resolved, AuthUserSerialized), <<>>)
  /\ pc' = "done"
  /\ UNCHANGED <<options, config, getServerSidePropsFunc, ctx, AuthUser,
                 AuthUserSerialized, redirect, events, exported>>

\* The composed getServerSideProps rejects: the handler rejects with it.
HookRejects ==
  /\ pc = "getServerSidePropsFunc"
  /\ returnData' = Throw("getServerSideProps rejected", <<>>)
  /\ pc' = "rejected"
  /\ UNCHANGED <<options, config, getServerSidePropsFunc, ctx, AuthUser,
                 AuthUserSerialized, redirect, composedProps, events, exported>>

\* part_000's exported processRedirect is called with the configured settings
\* for a session and a context.
ExportedProcessRedirect(user, c) ==
  /\ Settled
  /\ LET settings == [RedirectSettings EXCEPT !.ctx = c, !.AuthUser = user]
     IN exported' = [settings |-> settings, outcome |-> processRedirect_gen(settings)]
  /\ pc' = "idle"
  /\ ctx' = Undefined
  /\ AuthUser' = Undefined
  /\ AuthUserSerialized' = Undefined
  /\ redirect' = NoOutcome
  /\ composedProps' = Undefined
  /\ returnData' = NoOutcome
  /\ events' = <<>>
  /\ UNCHANGED <<options, config, getServerSidePropsFunc>>

Next ==
  \/ \E c \in Contexts : Request(c)
  \/ DetermineAuthUserRejects
  \/ DetermineAuthUserResolves
  \/ \E resolved \in HookResults : HookResolves(resolved)
  \/ HookRejects
  \/ \E user \in Sessions, c \in Contexts : ExportedProcessRedirect(user, c)

Spec == Init /\ [][Next]_vars

\* ------------------------------------------------------------ properties

\* The context as the handler passed it to processRedirect: the session is
\* attached to it only afterwards.
RequestCtx == Obj([k \in DOMAIN ctx.o \ {"AuthUser"} |-> ctx.o[k]])

\* The processRedirect calls visible in the state, each with its settings:
\* the handler's (withAuthUserTokenSSR.js) and the exported one (part_000).
HandlerRuns ==
  IF redirect.kind = "none" THEN {}
  ELSE {[settings |-> [RedirectSettings EXCEPT !.ctx = RequestCtx], outcome |-> redirect]}
ExportedRuns == IF exported.outcome.kind = "none" THEN {} ELSE {exported}
EngineRuns == HandlerRuns \cup ExportedRuns

Identified(s) == Truthy(Get(s.AuthUser, "id"))
GlobalRedirectConfig == Get(config, "redirectConfig")
DeclarativePresent(s) == Truthy(s.redirectConfig) \/ Truthy(GlobalRedirectConfig)
DeclarativeConfig(s) ==
  IF Truthy(s.redirectConfig) THEN s.redirectConfig ELSE GlobalRedirectConfig
DeclarativeRule(s) ==
  IF Identified(s) THEN Get(DeclarativeConfig(s), "authenticatedUser")
  ELSE Get(DeclarativeConfig(s), "unauthenticatedUser")
ResolvedAuthPageURL(s) ==
  IF Truthy(s.authPageURL) THEN s.authPageURL ELSE Get(config, "authPageURL")
ResolvedAppPageURL(s) ==
  IF Truthy(s.appPageURL) THEN s.appPageURL ELSE Get(config, "appPageURL")
IsDirectiveTo(v, d) ==
  v = Obj([redirect |-> Obj([destination |-> d, permanent |-> Bool(FALSE)])])

\* C1: with a declarative redirectConfig present (call site or global, {}
\* included), processRedirect returns {redirect: <the rule for the session's
\* auth state>} whatever the legacy fields are, raises nothing and calls no
\* legacy URL function.
C1_DeclarativeSupersedesLegacy ==
  \A run \in EngineRuns :
    DeclarativePresent(run.settings) =>
      run.outcome = Return(Obj([redirect |-> DeclarativeRule(run.settings)]), <<>>)

\* C2: an anonymous session with whenUnauthed = REDIRECT_TO_LOGIN, no
\* authPageURL at the call site or globally and no declarative redirectConfig
\* makes processRedirect fail with a configuration error, for every appPageURL
\* and whenAuthed.
C2_MissingAuthPageURLFails ==
  \A run \in EngineRuns :
    ( /\ ~Identified(run.settings)
      /\ run.settings.whenUnauthed = REDIRECT_TO_LOGIN
      /\ Nullish(run.settings.authPageURL)
      /\ Nullish(Get(config, "authPageURL"))
      /\ ~DeclarativePresent(run.settings) )
    => run.outcome.kind = "throw"

\* C3: with no legacy URL at the call site or globally and no declarative
\* redirectConfig, processRedirect returns null without raising, for both
\* kinds of session and every whenAuthed and whenUnauthed.
C3_InertWithoutLegacyURLs ==
  \A run \in EngineRuns :
    ( /\ Nullish(run.settings.authPageURL)
      /\ Nullish(Get(config, "authPageURL"))
      /\ Nullish(run.settings.appPageURL)
      /\ Nullish(Get(config, "appPageURL"))
      /\ ~DeclarativePresent(run.settings) )
    => run.outcome = Return(Null, <<>>)

\* C4: without a declarative redirectConfig, an anonymous session with
\* whenUnauthed = REDIRECT_TO_LOGIN and an authPageURL (call site, else global)
\* that is a non-empty string d, or a function returning a non-empty d for
\* {ctx, AuthUser}, gets exactly {redirect: {destination: d, permanent: false}};
\* an identified session with whenAuthed = REDIRECT_TO_APP gets the same from
\* appPageURL; a session whose action flag is RENDER gets null.
LegacyOutcomeFor(run, url) ==
  LET arg == Obj([ctx |-> run.settings.ctx, AuthUser |-> run.settings.AuthUser])
  IN /\ (url.t = "string" /\ Truthy(url)) =>
          /\ run.outcome.kind = "return"
          /\ IsDirectiveTo(run.outcome.value, url)
          /\ run.outcome.calls = <<>>
     /\ (url.t = "function" /\ Truthy(Apply(url, arg))) =>
          /\ run.outcome.kind = "return"
          /\ IsDirectiveTo(run.outcome.value, Apply(url, arg))
          /\ run.outcome.calls = <<[fn |-> url.name, arg |-> arg]>>
C4_LegacyRedirects ==
  \A run \in EngineRuns :
    ~DeclarativePresent(run.settings) =>
      LET s == run.settings
      IN /\ (~Identified(s) /\ s.whenUnauthed = REDIRECT_TO_LOGIN) =>
              LegacyOutcomeFor(run, ResolvedAuthPageURL(s))
         /\ (Identified(s) /\ s.whenAuthed = REDIRECT_TO_APP) =>
              LegacyOutcomeFor(run, ResolvedAppPageURL(s))
         /\ (~Identified(s) /\ s.whenUnauthed = RENDER) => run.outcome = Return(Null, <<>>)
         /\ (Identified(s) /\ s.whenAuthed = RENDER) => run.outcome = Return(Null, <<>>)

\* C4 witness: the handler's engine redirected an identified session to the
\* destination an appPageURL function computed, no declarative config present.
C4_Witness ==
  \E run \in HandlerRuns :
    /\ ~DeclarativePresent(run.settings)
    /\ Identified(run.settings)
    /\ run.settings.whenAuthed = REDIRECT_TO_APP
    /\ ResolvedAppPageURL(run.settings).t = "function"
    /\ IsDirectiveTo(run.outcome.value, Str("/home"))

\* C5: when the engine produced no redirect and the hook's result carries a
\* notFound or a redirect key, the handler returns exactly the hook's result,
\* whatever other keys (props included) it carries.
C5_HookRoutingReturnedVerbatim ==
  (pc = "done" /\ (Has(composedProps, "notFound") \/ Has(composedProps, "redirect")))
    => returnData = Return(composedProps, <<>>)

\* C6: when the engine produced no redirect, a hook result with a props object
\* and no notFound/redirect key is returned with AuthUserSerialized added to
\* its props and everything else kept; with no hook, or a hook that returns
\* nothing, the result is exactly {props: {AuthUserSerialized}}.
NoRedirectProduced == redirect.kind = "return" /\ ~Truthy(redirect.value)
HookCalled == \E i \in 1..Len(events) : events[i] = "getServerSidePropsFunc"
C7_OrderAndShortCircuit ==
  /\ events \in {<<>>, <<"determineAuthUser">>,
                 <<"determineAuthUser", "processRedirect">>,
                 <<"determineAuthUser", "processRedirect", "getServerSidePropsFunc">>}
  /\ (redirect.kind = "return" /\ Truthy(Get(redirect.value, "redirect"))) =>
       /\ pc = "done"
       /\ returnData = Return(redirect.value, <<>>)
       /\ ~HookCalled
       /\ composedProps = Undefined
       /\ ~Has(ctx, "AuthUser")
  /\ HookCalled =>
       /\ NoRedirectProduced
       /\ Get(ctx, "AuthUser") = AuthUser
  /\ (pc = "getServerSidePropsFunc" \/ composedProps # Undefined) => HookCalled

\* C7 witness: a hook was provided, the engine returned a directive and the
\* handler returned it.
C7_Witness ==
  /\ pc = "done"
  /\ Truthy(getServerSidePropsFunc)
  /\ redirect.kind = "return"
  /\ Truthy(Get(redirect.value, "redirect"))

\* C8: when the declarative config holds no rule for the session's auth state,
\* the engine's {redirect: undefined} is treated as no redirect: the handler
\* goes on to the hook and returns a props-bearing or hook-routed result.
C8_AbsentRuleIsNoRedirect ==
  (pc = "done" /\ redirect = Return(Obj([redirect |-> Undefined]), <<>>)) =>
    \/ Truthy(Get(returnData.value, "props"))
    \/ Truthy(Get(returnData.value, "notFound"))
    \/ Truthy(Get(returnData.value, "redirect"))

\* C9: with no call-site redirectConfig and a global one, findRedirectRule
\* returns {redirect: <the global rule for the session's auth state>} without
\* failing; a call-site redirectConfig is used in place of the global one.
C9_RuleFromGlobalConfig ==
  \A run \in HandlerRuns :
    LET s == run.settings
        rule(c) == IF Identified(s) THEN Get(c, "authenticatedUser")
                   ELSE Get(c, "unauthenticatedUser")
    IN /\ (Nullish(s.redirectConfig) /\ Truthy(GlobalRedirectConfig)) =>
            findRedirectRule(s) = Return(Obj([redirect |-> rule(GlobalRedirectConfig)]), <<>>)
       /\ Truthy(s.redirectConfig) =>
            findRedirectRule(s) = Return(Obj([redirect |-> rule(s.redirectConfig)]), <<>>)

\* C10 as stated: every directive processRedirect returns, under any
\* configuration, has a non-empty string destination and permanent = false.
WellFormedRedirect(r) ==
  /\ r.t = "object"
  /\ DOMAIN r.o = {"destination", "permanent"}
  /\ r.o.destination.t = "string"
  /\ Truthy(r.o.destination)
  /\ r.o.permanent = Bool(FALSE)
====
